---- MODULE Spec2Model ----
(***************************************************************************)
(* CSPy: HTTP security-header analyzer.                                    *)
(*                                                                         *)
(* The model follows the Rust sources: main.rs (the loop over targets),    *)
(* scanner.rs (Scanner::scan, the dispatcher, and the additional-header    *)
(* check), checks/{csp,cors,hsts,xframe,cookies}.rs (the rule modules) and *)
(* checks/mod.rs (Severity, SecurityIssue, ScanResult).                    *)
(*                                                                         *)
(* Text is modelled character by character: a Rust &str / String is a TLA+ *)
(* string, read with Len, SubSeq and \o.  Option<T> is a sequence of       *)
(* length at most one: None is << >>, Some(x) is << x >>.  Integers parsed *)
(* from text (i64 / i32) are kept as sign and decimal magnitude so that    *)
(* the width of the Rust type decides whether a parse succeeds.            *)
(***************************************************************************)
EXTENDS Integers, Sequences, FiniteSets, TLC

VARIABLES
    urls,         \* main: the targets to scan, in input order
    net,          \* the world: for each target, what the HTTP client answers
    idx,          \* main: position of the `for url in urls` loop
    pc,           \* control point inside main / Scanner::scan
    headers,      \* scan: the response's HeaderMap (the snapshot)
    issues,       \* scan: the local `issues` vector
    outs,         \* scan: the value each check module returned, in call order
    ran,          \* scan: the check modules called so far, in call order
    all_results,  \* main: the collected ScanResults
    attempted,    \* main: the targets handed to scanner.scan, in call order
    errors        \* main: the targets reported on stderr (the Err arm)

vars == <<urls, net, idx, pc, headers, issues, outs, ran, all_results, attempted, errors>>

----------------------------------------------------------------------------
(* Option<T>                                                               *)

None == << >>

Some(x) == << x >>

is_some(o) == o # << >>

unwrap(o) == o[1]

----------------------------------------------------------------------------
(* Characters and the std::str operations the checks use                   *)

CharAt(s, i) == SubSeq(s, i, i)

CharsOf(s) == { CharAt(s, i) : i \in 1..Len(s) }

UpperLetters == "ABCDEFGHIJKLMNOPQRSTUVWXYZ"

LowerLetters == "abcdefghijklmnopqrstuvwxyz"

Digits == "0123456789"

\* (the grave accent, byte 96, cannot be written in a TLA+ string and is left out)
Punctuation == " !#$%&'()*+,-./:;<=>?@[]^_{|}~"

\* HeaderValue::to_str accepts the bytes 32..126 and the tab.
VisibleAsciiSet ==
    CharsOf(UpperLetters) \cup CharsOf(LowerLetters) \cup CharsOf(Digits)
        \cup CharsOf(Punctuation) \cup {"\"", "\\", "\t"}

\* A byte of a header value outside visible ASCII (obs-text, 0x80..0xFF).
OpaqueByte == "\f"

LowerMap ==
    [c \in CharsOf(UpperLetters) |->
        CharAt(LowerLetters, CHOOSE i \in 1..26 : CharAt(UpperLetters, i) = c)]

UpperMap ==
    [c \in CharsOf(LowerLetters) |->
        CharAt(UpperLetters, CHOOSE i \in 1..26 : CharAt(LowerLetters, i) = c)]

RECURSIVE MapChars(_, _, _)
MapChars(s, f, i) ==
    IF i > Len(s) THEN ""
    ELSE LET c == CharAt(s, i)
         IN  (IF c \in DOMAIN f THEN f[c] ELSE c) \o MapChars(s, f, i + 1)

to_lowercase(s) == MapChars(s, LowerMap, 1)

to_uppercase(s) == MapChars(s, UpperMap, 1)

contains(s, t) ==
    \E i \in 1..(Len(s) - Len(t) + 1) : SubSeq(s, i, i + Len(t) - 1) = t

starts_with(s, t) == Len(t) <= Len(s) /\ SubSeq(s, 1, Len(t)) = t

ends_with(s, t) == Len(t) <= Len(s) /\ SubSeq(s, Len(s) - Len(t) + 1, Len(s)) = t

strip_prefix(s, t) ==
    IF starts_with(s, t) THEN Some(SubSeq(s, Len(t) + 1, Len(s))) ELSE None

\* char::is_whitespace, restricted to the bytes a header value can hold
is_whitespace(c) == c \in {" ", "\t"}

RECURSIVE TrimStart(_, _)
TrimStart(s, i) ==
    IF i > Len(s) THEN i
    ELSE IF is_whitespace(CharAt(s, i)) THEN TrimStart(s, i + 1) ELSE i

RECURSIVE TrimEnd(_, _)
TrimEnd(s, i) ==
    IF i < 1 THEN i
    ELSE IF is_whitespace(CharAt(s, i)) THEN TrimEnd(s, i - 1) ELSE i

trim(s) == SubSeq(s, TrimStart(s, 1), TrimEnd(s, Len(s)))

\* str::split(sep) for a one-character separator: always at least one piece
RECURSIVE SplitFrom(_, _, _, _)
SplitFrom(s, sep, start, i) ==
    IF i > Len(s) THEN << SubSeq(s, start, Len(s)) >>
    ELSE IF CharAt(s, i) = sep
         THEN << SubSeq(s, start, i - 1) >> \o SplitFrom(s, sep, i + 1, i + 1)
         ELSE SplitFrom(s, sep, start, i + 1)

split(s, sep) == SplitFrom(s, sep, 1, 1)

\* Iterator::nth(n), zero-based
nth(seq, n) == IF n + 1 <= Len(seq) THEN Some(seq[n + 1]) ELSE None

\* HeaderValue::to_str: Err (None here) on any byte that is not visible ASCII
to_str(v) ==
    IF \A i \in 1..Len(v) : CharAt(v, i) \in VisibleAsciiSet THEN Some(v) ELSE None

----------------------------------------------------------------------------
(* Integers read from text.  A parsed integer is [neg, mag]: its sign and  *)
(* its decimal magnitude without leading zeros, so that values beyond the  *)
(* checker's own integers keep their meaning and the i64 / i32 range test  *)
(* of str::parse is the real one.                                          *)

DigitVal(c) == (CHOOSE i \in 1..10 : CharAt(Digits, i) = c) - 1

is_digit(c) == c \in CharsOf(Digits)

RECURSIVE StripZeros(_)
StripZeros(d) ==
    IF Len(d) > 1 /\ CharAt(d, 1) = "0" THEN StripZeros(SubSeq(d, 2, Len(d))) ELSE d

\* a < b for two magnitudes without leading zeros
MagLt(a, b) ==
    \/ Len(a) < Len(b)
    \/ /\ Len(a) = Len(b)
       /\ \E i \in 1..Len(a) :
             /\ SubSeq(a, 1, i - 1) = SubSeq(b, 1, i - 1)
             /\ DigitVal(CharAt(a, i)) < DigitVal(CharAt(b, i))

MagLe(a, b) == a = b \/ MagLt(a, b)

Num(neg, mag) == [neg |-> neg /\ mag # "0", mag |-> mag]

\* x < y and x > y on parsed integers
NumLt(x, y) ==
    IF x.neg /\ ~y.neg THEN TRUE
    ELSE IF ~x.neg /\ y.neg THEN FALSE
    ELSE IF x.neg THEN MagLt(y.mag, x.mag)
    ELSE MagLt(x.mag, y.mag)

NumGt(x, y) == NumLt(y, x)

\* <iN as FromStr>::from_str for a type whose largest value is maxMag and
\* whose smallest value is -minMag: an optional sign, then one or more
\* decimal digits and nothing else; Err (None here) on overflow.
parse_int(s, maxMag, minMag) ==
    LET signed == Len(s) > 0 /\ CharAt(s, 1) \in {"+", "-"}
        neg    == Len(s) > 0 /\ CharAt(s, 1) = "-"
        body   == IF signed THEN SubSeq(s, 2, Len(s)) ELSE s
        mag    == StripZeros(body)
    IN  IF Len(body) = 0 \/ \E i \in 1..Len(body) : ~is_digit(CharAt(body, i))
        THEN None
        ELSE IF (IF neg THEN MagLe(mag, minMag) ELSE MagLe(mag, maxMag))
             THEN Some(Num(neg, mag))
             ELSE None

parse_i64(s) == parse_int(s, "9223372036854775807", "9223372036854775808")

parse_i32(s) == parse_int(s, "2147483647", "2147483648")

\* Display for an integer
fmt_int(x) == (IF x.neg THEN "-" ELSE "") \o x.mag

\* the decimal digits of mag / d, by long division (d a small divisor)
RECURSIVE LongDiv(_, _, _, _)
LongDiv(mag, d, i, rem) ==
    IF i > Len(mag) THEN ""
    ELSE LET cur == rem * 10 + DigitVal(CharAt(mag, i))
         IN  CharAt(Digits, (cur \div d) + 1) \o LongDiv(mag, d, i + 1, cur % d)

\* x / d on i64: the quotient truncated toward zero
div_trunc(x, d) == Num(x.neg, StripZeros(LongDiv(x.mag, d, 1, 0)))

----------------------------------------------------------------------------
(* checks/mod.rs: Severity, SecurityIssue; reqwest's HeaderMap             *)

Severity == {"Critical", "High", "Medium", "Low", "Info"}

\* a slip: the recommendation is left as String::new()
SecurityIssueNoAdvice(category, severity, message, recommendation) ==
    [category |-> category, severity |-> severity,
     message |-> message, recommendation |-> ""]

SecurityIssue(category, severity, message, recommendation) ==
    [category |-> category, severity |-> severity,
     message |-> message, recommendation |-> recommendation]

\* `if cond { issues.push(issue) }`
push_if(cond, issue) == IF cond THEN << issue >> ELSE << >>

HeaderNames ==
    {"content-security-policy", "x-content-security-policy",
     "access-control-allow-origin", "access-control-allow-credentials",
     "access-control-allow-methods", "access-control-allow-headers",
     "access-control-max-age", "strict-transport-security",
     "x-frame-options", "set-cookie", "x-content-type-options",
     "x-xss-protection", "referrer-policy", "permissions-policy"}

\* A HeaderMap: every header name maps to its values in arrival order.
NoHeaders == [n \in HeaderNames |-> << >>]

\* HeaderMap::get: the first value, HeaderMap::get_all: every value
get(h, name) == IF h[name] = << >> THEN None ELSE Some(h[name][1])

get_all(h, name) == h[name]

contains_key(h, name) == h[name] # << >>

----------------------------------------------------------------------------
(* checks/csp.rs                                                           *)

\* the end of the run of non-';' characters that starts at i
RECURSIVE RunEnd(_, _)
RunEnd(s, i) ==
    IF i > Len(s) \/ CharAt(s, i) = ";" THEN i - 1 ELSE RunEnd(s, i + 1)

\* Whether  <directive>\s+([^;]+)  matches with the literal placed at p, and
\* the text of group 1 if it does.  \s+ is greedy and gives back one blank
\* when nothing but ';' or the end follows the blanks.
ReBlanksEnd(csp, directive, p) == TrimStart(csp, p + Len(directive))

ReMatchesAt(csp, directive, p) ==
    LET a == p + Len(directive)
        b == ReBlanksEnd(csp, directive, p)
    IN  /\ SubSeq(csp, p, a - 1) = directive
        /\ b - a >= 1
        /\ \/ b <= Len(csp) /\ CharAt(csp, b) # ";"
           \/ b - a >= 2

ReGroup1(csp, directive, p) ==
    LET b == ReBlanksEnd(csp, directive, p)
    IN  IF b <= Len(csp) /\ CharAt(csp, b) # ";"
        THEN SubSeq(csp, b, RunEnd(csp, b))
        ELSE SubSeq(csp, b - 1, RunEnd(csp, b - 1))

\* re.captures(csp): the leftmost match
extract_directive(csp, directive) ==
    LET hits == { p \in 1..(Len(csp) - Len(directive) + 1) :
                    ReMatchesAt(csp, directive, p) }
    IN  IF hits = {} THEN None
        ELSE LET p == CHOOSE q \in hits : \A r \in hits : q <= r
             IN  Some(trim(ReGroup1(csp, directive, p)))

\* `x.contains(" * ") || x.ends_with(" *") || x == "*"`
allows_all_sources(src) ==
    contains(src, " * ") \/ ends_with(src, " *") \/ src = "*"

csp_script_src_rules(csp) ==
    LET d == extract_directive(csp, "script-src")
    IN  IF is_some(d)
        THEN LET script_src == unwrap(d)
             IN  push_if(allows_all_sources(script_src),
                     SecurityIssue("CSP", "Critical",
                         "CSP script-src allows all sources (*)",
                         "Restrict script-src to specific trusted domains only"))
                 \o push_if(contains(script_src, "data:"),
                     SecurityIssue("CSP", "High",
                         "CSP script-src allows 'data:' URIs",
                         "Remove 'data:' from script-src to prevent base64 encoded script execution"))
                 \o push_if(contains(script_src, "https:")
                                /\ ~contains(script_src, "'unsafe-inline'"),
                     SecurityIssue("CSP", "Medium",
                         "CSP script-src allows all HTTPS sources",
                         "Restrict to specific HTTPS domains instead of allowing all HTTPS"))
        ELSE << >>

csp_default_src_rules(csp) ==
    LET d == extract_directive(csp, "default-src")
    IN  IF is_some(d)
        THEN push_if(allows_all_sources(unwrap(d)),
                 SecurityIssue("CSP", "High",
                     "CSP default-src allows all sources (*)",
                     "Restrict default-src to specific trusted domains"))
        ELSE << SecurityIssue("CSP", "Medium",
                    "CSP missing 'default-src' directive",
                    "Add 'default-src' as a fallback for other directives") >>

csp_object_src_rules(csp) ==
    LET d == extract_directive(csp, "object-src")
    IN  IF is_some(d)
        THEN push_if(unwrap(d) # "'none'",
                 SecurityIssue("CSP", "Medium",
                     "CSP object-src is not set to 'none'",
                     "Set object-src to 'none' to prevent Flash/plugin-based attacks"))
        ELSE << SecurityIssue("CSP", "Low",
                    "CSP missing 'object-src' directive",
                    "Add 'object-src 'none'' to prevent plugin execution") >>

csp_invalid_encoding ==
    SecurityIssue("CSP", "Medium",
        "Content-Security-Policy header has invalid encoding",
        "Ensure CSP header contains valid UTF-8 characters")

csp_missing ==
    SecurityIssue("CSP", "High",
        "Missing Content-Security-Policy header",
        "Implement CSP to prevent XSS and other injection attacks")

\* headers.get("content-security-policy").or_else(|| headers.get("x-..."))
csp_header(h) ==
    IF is_some(get(h, "content-security-policy"))
    THEN get(h, "content-security-policy")
    ELSE get(h, "x-content-security-policy")

\* a slip: the last rule asks whether the HSTS module has reported the header
\* missing, where the code asks the snapshot whether the header is there
csp_rules_reads_findings(h, csp) ==
    push_if(contains(csp, "'unsafe-inline'"),
        SecurityIssue("CSP", "High",
            "CSP allows 'unsafe-inline'",
            "Remove 'unsafe-inline' and use nonces or hashes for inline scripts/styles"))
    \o push_if(contains(csp, "'unsafe-eval'"),
        SecurityIssue("CSP", "High",
            "CSP allows 'unsafe-eval'",
            "Remove 'unsafe-eval' to prevent dynamic code execution"))
    \o csp_script_src_rules(csp)
    \o csp_default_src_rules(csp)
    \o csp_object_src_rules(csp)
    \o push_if(~contains(csp, "base-uri"),
        SecurityIssue("CSP", "Medium",
            "CSP missing 'base-uri' directive",
            "Add 'base-uri 'self'' to prevent base tag injection"))
    \o push_if(~contains(csp, "upgrade-insecure-requests")
                   /\ \E i \in 1..Len(issues) :
                          issues[i].message = "Missing Strict-Transport-Security header",
        SecurityIssue("CSP", "Info",
            "CSP missing 'upgrade-insecure-requests' directive",
            "Consider adding 'upgrade-insecure-requests' to upgrade HTTP to HTTPS"))

\* the rules that run once the header text is in hand
csp_rules(h, csp) ==
    push_if(contains(csp, "'unsafe-inline'"),
        SecurityIssue("CSP", "High",
            "CSP allows 'unsafe-inline'",
            "Remove 'unsafe-inline' and use nonces or hashes for inline scripts/styles"))
    \o push_if(contains(csp, "'unsafe-eval'"),
        SecurityIssue("CSP", "High",
            "CSP allows 'unsafe-eval'",
            "Remove 'unsafe-eval' to prevent dynamic code execution"))
    \o csp_script_src_rules(csp)
    \o csp_default_src_rules(csp)
    \o csp_object_src_rules(csp)
    \o push_if(~contains(csp, "base-uri"),
        SecurityIssue("CSP", "Medium",
            "CSP missing 'base-uri' directive",
            "Add 'base-uri 'self'' to prevent base tag injection"))
    \o push_if(~contains(csp, "upgrade-insecure-requests")
                   /\ ~contains_key(h, "strict-transport-security"),
        SecurityIssue("CSP", "Info",
            "CSP missing 'upgrade-insecure-requests' directive",
            "Consider adding 'upgrade-insecure-requests' to upgrade HTTP to HTTPS"))

\* a slip: the None arm pushes its finding and falls through to the rules
csp_check_no_return(h) ==
    LET csp_header_value == csp_header(h)
    IN  IF ~is_some(csp_header_value) THEN << csp_missing >> \o csp_rules(h, "")
        ELSE IF ~is_some(to_str(unwrap(csp_header_value)))
        THEN << csp_invalid_encoding >>
        ELSE csp_rules(h, unwrap(to_str(unwrap(csp_header_value))))

csp_check(h) ==
    LET csp_header_value == csp_header(h)
    IN  IF ~is_some(csp_header_value) THEN << csp_missing >>
        ELSE IF ~is_some(to_str(unwrap(csp_header_value)))
        THEN << csp_invalid_encoding >>
        ELSE csp_rules(h, unwrap(to_str(unwrap(csp_header_value))))

----------------------------------------------------------------------------
(* checks/cors.rs                                                          *)

\* a slip: the credentials value is compared without lowercasing it
cors_origin_rules_case(h, origin_str) ==
    LET credentials == get(h, "access-control-allow-credentials")
        cred_true ==
            /\ is_some(credentials)
            /\ is_some(to_str(unwrap(credentials)))
            /\ unwrap(to_str(unwrap(credentials))) = "true"
    IN  (IF origin_str = "*"
         THEN push_if(cred_true,
                  SecurityIssue("CORS", "Critical",
                      "CORS allows all origins (*) with credentials",
                      "NEVER use wildcard (*) with Access-Control-Allow-Credentials: true. This allows any website to make authenticated requests."))
              \o << SecurityIssue("CORS", "Medium",
                        "CORS allows all origins (*)",
                        "Restrict Access-Control-Allow-Origin to specific trusted domains") >>
         ELSE << >>)
        \o push_if(origin_str = "null",
               SecurityIssue("CORS", "High",
                   "CORS allows 'null' origin",
                   "Remove 'null' from allowed origins - it can be exploited via sandboxed iframes"))
        \o push_if(starts_with(origin_str, "http://"),
               SecurityIssue("CORS", "Medium",
                   "CORS allows HTTP origin (unencrypted)",
                   "Only allow HTTPS origins to prevent MitM attacks"))

cors_origin_rules(h, origin_str) ==
    LET credentials == get(h, "access-control-allow-credentials")
        cred_true ==
            /\ is_some(credentials)
            /\ is_some(to_str(unwrap(credentials)))
            /\ to_lowercase(unwrap(to_str(unwrap(credentials)))) = "true"
    IN  (IF origin_str = "*"
         THEN push_if(cred_true,
                  SecurityIssue("CORS", "Critical",
                      "CORS allows all origins (*) with credentials",
                      "NEVER use wildcard (*) with Access-Control-Allow-Credentials: true. This allows any website to make authenticated requests."))
              \o << SecurityIssue("CORS", "Medium",
                        "CORS allows all origins (*)",
                        "Restrict Access-Control-Allow-Origin to specific trusted domains") >>
         ELSE << >>)
        \o push_if(origin_str = "null",
               SecurityIssue("CORS", "High",
                   "CORS allows 'null' origin",
                   "Remove 'null' from allowed origins - it can be exploited via sandboxed iframes"))
        \o push_if(starts_with(origin_str, "http://"),
               SecurityIssue("CORS", "Medium",
                   "CORS allows HTTP origin (unencrypted)",
                   "Only allow HTTPS origins to prevent MitM attacks"))

cors_orphan_rule(h) ==
    push_if(contains_key(h, "access-control-allow-methods")
                \/ contains_key(h, "access-control-allow-headers"),
        SecurityIssue("CORS", "Low",
            "CORS headers present but Access-Control-Allow-Origin is missing",
            "Either remove all CORS headers or properly configure Access-Control-Allow-Origin"))

cors_methods_rules(h) ==
    LET methods == get(h, "access-control-allow-methods")
    IN  IF is_some(methods) /\ is_some(to_str(unwrap(methods)))
        THEN LET methods_upper == to_uppercase(unwrap(to_str(unwrap(methods))))
             IN  push_if(contains(methods_upper, "*"),
                     SecurityIssue("CORS", "High",
                         "CORS allows all HTTP methods (*)",
                         "Explicitly specify only the required HTTP methods"))
                 \o push_if(contains(methods_upper, "DELETE")
                                \/ contains(methods_upper, "PUT"),
                     SecurityIssue("CORS", "Info",
                         "CORS allows potentially dangerous methods (DELETE/PUT)",
                         "Ensure these methods are required and properly secured"))
        ELSE << >>

cors_headers_rules(h) ==
    LET allowed_headers == get(h, "access-control-allow-headers")
    IN  push_if(/\ is_some(allowed_headers)
                /\ is_some(to_str(unwrap(allowed_headers)))
                /\ contains(unwrap(to_str(unwrap(allowed_headers))), "*"),
            SecurityIssue("CORS", "Medium",
                "CORS allows all headers (*)",
                "Explicitly specify only the required headers"))

cors_max_age_limit == Num(FALSE, "86400")

cors_max_age_rules(h) ==
    LET max_age == get(h, "access-control-max-age")
    IN  IF is_some(max_age) /\ is_some(to_str(unwrap(max_age)))
        THEN LET age == parse_i32(unwrap(to_str(unwrap(max_age))))
             IN  push_if(is_some(age) /\ NumGt(unwrap(age), cors_max_age_limit),
                     SecurityIssue("CORS", "Low",
                         "CORS preflight cache time is very long",
                         "Consider reducing Access-Control-Max-Age to allow faster policy updates"))
        ELSE << >>

cors_check(h) ==
    LET origin == get(h, "access-control-allow-origin")
    IN  IF is_some(origin) /\ ~is_some(to_str(unwrap(origin)))
        THEN << >>
        ELSE (IF is_some(origin)
              THEN cors_origin_rules(h, unwrap(to_str(unwrap(origin))))
              ELSE cors_orphan_rule(h))
             \o cors_methods_rules(h)
             \o cors_headers_rules(h)
             \o cors_max_age_rules(h)

----------------------------------------------------------------------------
(* checks/hsts.rs                                                          *)

SIX_MONTHS_SECONDS == Num(FALSE, "15768000")

ONE_YEAR_SECONDS == Num(FALSE, "31536000")

\* the loop body of extract_max_age over the ';'-separated parts
RECURSIVE hsts_max_age_in(_, _)
hsts_max_age_in(parts, i) ==
    IF i > Len(parts) THEN None
    ELSE LET trimmed == trim(parts[i])
             value   == nth(split(trimmed, "="), 1)
         IN  IF starts_with(to_lowercase(trimmed), "max-age") /\ is_some(value)
             THEN parse_i64(trim(unwrap(value)))
             ELSE hsts_max_age_in(parts, i + 1)

hsts_extract_max_age(hsts) == hsts_max_age_in(split(hsts, ";"), 1)

hsts_max_age_rules(max_age) ==
    IF is_some(max_age)
    THEN LET age == unwrap(max_age)
         IN  push_if(NumLt(age, SIX_MONTHS_SECONDS),
                 SecurityIssue("HSTS", "Medium",
                     "HSTS max-age is too short (" \o fmt_int(age) \o " seconds, ~"
                         \o fmt_int(div_trunc(age, 86400)) \o " days)",
                     "Increase max-age to at least 6 months (15768000 seconds) or preferably 1 year"))
             \o push_if(NumLt(age, ONE_YEAR_SECONDS),
                 SecurityIssue("HSTS", "Info",
                     "HSTS max-age is less than 1 year",
                     "Consider increasing to 1 year (31536000) for stronger protection"))
    ELSE << SecurityIssue("HSTS", "High",
                "HSTS header missing max-age directive",
                "Add max-age directive: max-age=31536000") >>

hsts_missing ==
    SecurityIssue("HSTS", "Medium",
        "Missing Strict-Transport-Security header",
        "Add 'Strict-Transport-Security: max-age=31536000; includeSubDomains; preload' to enforce HTTPS")

hsts_check(h) ==
    LET value == get(h, "strict-transport-security")
    IN  IF ~is_some(value) THEN << hsts_missing >>
        ELSE IF ~is_some(to_str(unwrap(value))) THEN << >>
        ELSE LET hsts == unwrap(to_str(unwrap(value)))
             IN  hsts_max_age_rules(hsts_extract_max_age(hsts))
                 \o push_if(~contains(to_lowercase(hsts), "includesubdomains"),
                     SecurityIssue("HSTS", "Low",
                         "HSTS missing 'includeSubDomains' directive",
                         "Add 'includeSubDomains' to protect all subdomains with HSTS"))
                 \o push_if(~contains(to_lowercase(hsts), "preload"),
                     SecurityIssue("HSTS", "Info",
                         "HSTS missing 'preload' directive",
                         "Consider adding 'preload' and submitting to hstspreload.org for browser preload lists"))

----------------------------------------------------------------------------
(* checks/xframe.rs                                                        *)

RECURSIVE frame_ancestors_in(_, _)
frame_ancestors_in(parts, i) ==
    IF i > Len(parts) THEN None
    ELSE LET trimmed == trim(parts[i])
             value   == strip_prefix(trimmed, "frame-ancestors")
         IN  IF starts_with(trimmed, "frame-ancestors") /\ is_some(value)
             THEN Some(trim(unwrap(value)))
             ELSE frame_ancestors_in(parts, i + 1)

extract_frame_ancestors(csp) == frame_ancestors_in(split(csp, ";"), 1)

\* csp.and_then(|v| v.to_str().ok()).map(|s| s.contains(..)).unwrap_or(false)
\* a slip: the directive is looked for at the start of the header only
has_frame_ancestors_first(h) ==
    LET csp == get(h, "content-security-policy")
    IN  /\ is_some(csp)
        /\ is_some(to_str(unwrap(csp)))
        /\ starts_with(unwrap(to_str(unwrap(csp))), "frame-ancestors")

has_frame_ancestors(h) ==
    LET csp == get(h, "content-security-policy")
    IN  /\ is_some(csp)
        /\ is_some(to_str(unwrap(csp)))
        /\ contains(unwrap(to_str(unwrap(csp))), "frame-ancestors")

xframe_header_rules(h, xframe_str) ==
    push_if(contains(xframe_str, "ALLOWALL") \/ contains(xframe_str, "ALLOW-ALL"),
        SecurityIssue("X-Frame-Options", "High",
            "X-Frame-Options is set to ALLOWALL",
            "Change to DENY or SAMEORIGIN to prevent clickjacking"))
    \o push_if(contains(xframe_str, "ALLOW-FROM"),
        SecurityIssue("X-Frame-Options", "Medium",
            "X-Frame-Options uses deprecated ALLOW-FROM directive",
            "Replace with CSP frame-ancestors directive for better browser support"))
    \o push_if(has_frame_ancestors(h),
        SecurityIssue("X-Frame-Options", "Info",
            "Both X-Frame-Options and CSP frame-ancestors are set",
            "CSP frame-ancestors takes precedence in modern browsers. Consider removing X-Frame-Options for simplicity."))

xframe_missing_rule(h) ==
    push_if(~has_frame_ancestors(h),
        SecurityIssue("X-Frame-Options", "Medium",
            "Missing X-Frame-Options header",
            "Add 'X-Frame-Options: DENY' or use CSP 'frame-ancestors 'none'' to prevent clickjacking"))

xframe_csp_rules(h) ==
    LET csp == get(h, "content-security-policy")
    IN  IF is_some(csp) /\ is_some(to_str(unwrap(csp)))
        THEN LET fa == extract_frame_ancestors(unwrap(to_str(unwrap(csp))))
             IN  IF is_some(fa)
                 THEN push_if(contains(unwrap(fa), "*"),
                          SecurityIssue("CSP frame-ancestors", "High",
                              "CSP frame-ancestors allows all sources (*)",
                              "Restrict frame-ancestors to specific trusted domains or use 'none'"))
                      \o push_if(contains(unwrap(fa), "http://"),
                          SecurityIssue("CSP frame-ancestors", "Medium",
                              "CSP frame-ancestors allows HTTP (unencrypted) sources",
                              "Only allow HTTPS sources in frame-ancestors"))
                 ELSE << >>
        ELSE << >>

\* a slip: an undecodable X-Frame-Options is skipped, not returned on
xframe_check_continue(h) ==
    LET xframe == get(h, "x-frame-options")
    IN  (IF is_some(xframe) /\ ~is_some(to_str(unwrap(xframe))) THEN << >>
         ELSE IF is_some(xframe)
         THEN xframe_header_rules(h, to_uppercase(unwrap(to_str(unwrap(xframe)))))
         ELSE xframe_missing_rule(h))
        \o xframe_csp_rules(h)

\* a slip: the header text is matched without uppercasing it
xframe_check_case(h) ==
    LET xframe == get(h, "x-frame-options")
    IN  IF is_some(xframe) /\ ~is_some(to_str(unwrap(xframe)))
        THEN << >>
        ELSE (IF is_some(xframe)
              THEN xframe_header_rules(h, unwrap(to_str(unwrap(xframe))))
              ELSE xframe_missing_rule(h))
             \o xframe_csp_rules(h)

xframe_check(h) ==
    LET xframe == get(h, "x-frame-options")
    IN  IF is_some(xframe) /\ ~is_some(to_str(unwrap(xframe)))
        THEN << >>
        ELSE (IF is_some(xframe)
              THEN xframe_header_rules(h, to_uppercase(unwrap(to_str(unwrap(xframe)))))
              ELSE xframe_missing_rule(h))
             \o xframe_csp_rules(h)

----------------------------------------------------------------------------
(* checks/cookies.rs                                                       *)

\* cookie.split('=').next().unwrap_or("unknown").trim()
extract_cookie_name(cookie) == trim(split(cookie, "=")[1])

is_sensitive_cookie(name) ==
    LET name_lower == to_lowercase(name)
    IN  \/ contains(name_lower, "session")
        \/ contains(name_lower, "auth")
        \/ contains(name_lower, "token")
        \/ contains(name_lower, "csrf")
        \/ contains(name_lower, "xsrf")
        \/ starts_with(name_lower, "__secure-")
        \/ starts_with(name_lower, "__host-")

extract_samesite(cookie) ==
    LET cookie_lower == to_lowercase(cookie)
    IN  IF contains(cookie_lower, "samesite=none") THEN "None"
        ELSE IF contains(cookie_lower, "samesite=lax") THEN "Lax"
        ELSE IF contains(cookie_lower, "samesite=strict") THEN "Strict"
        ELSE "Missing"

RECURSIVE cookie_max_age_in(_, _)
cookie_max_age_in(parts, i) ==
    IF i > Len(parts) THEN None
    ELSE LET trimmed == to_lowercase(trim(parts[i]))
             value   == nth(split(trimmed, "="), 1)
         IN  IF starts_with(trimmed, "max-age") /\ is_some(value)
             THEN parse_i64(trim(unwrap(value)))
             ELSE cookie_max_age_in(parts, i + 1)

cookies_extract_max_age(cookie) == cookie_max_age_in(split(cookie, ";"), 1)

cookie_max_age_limit == Num(FALSE, "31536000")

\* a slip: the __Host- rules sit inside the missing-Secure branch
cookie_prefix_rules_nested(cookie, cookie_name) ==
    IF starts_with(cookie_name, "__Secure-") \/ starts_with(cookie_name, "__Host-")
    THEN IF ~contains(to_lowercase(cookie), "secure")
         THEN << SecurityIssue("Cookie Security", "High",
                     "Cookie '" \o cookie_name \o "' uses security prefix but missing Secure flag",
                     "Cookies with __Secure- or __Host- prefix MUST have Secure flag") >>
              \o (IF starts_with(cookie_name, "__Host-")
                  THEN push_if(contains(to_lowercase(cookie), "domain="),
                           SecurityIssue("Cookie Security", "High",
                               "Cookie '" \o cookie_name \o "' uses __Host- prefix but has Domain attribute",
                               "__Host- cookies must NOT have Domain attribute"))
                       \o push_if(~contains(to_lowercase(cookie), "path=/"),
                           SecurityIssue("Cookie Security", "High",
                               "Cookie '" \o cookie_name \o "' uses __Host- prefix but Path is not /",
                               "__Host- cookies must have Path=/"))
                  ELSE << >>)
         ELSE << >>
    ELSE << >>

cookie_prefix_rules(cookie, cookie_name) ==
    IF starts_with(cookie_name, "__Secure-") \/ starts_with(cookie_name, "__Host-")
    THEN push_if(~contains(to_lowercase(cookie), "secure"),
             SecurityIssue("Cookie Security", "High",
                 "Cookie '" \o cookie_name \o "' uses security prefix but missing Secure flag",
                 "Cookies with __Secure- or __Host- prefix MUST have Secure flag"))
         \o (IF starts_with(cookie_name, "__Host-")
             THEN push_if(contains(to_lowercase(cookie), "domain="),
                      SecurityIssue("Cookie Security", "High",
                          "Cookie '" \o cookie_name \o "' uses __Host- prefix but has Domain attribute",
                          "__Host- cookies must NOT have Domain attribute"))
                  \o push_if(~contains(to_lowercase(cookie), "path=/"),
                      SecurityIssue("Cookie Security", "High",
                          "Cookie '" \o cookie_name \o "' uses __Host- prefix but Path is not /",
                          "__Host- cookies must have Path=/"))
             ELSE << >>)
    ELSE << >>

\* the body of `for cookie in cookies`
cookie_rules(cookie) ==
    LET cookie_name   == extract_cookie_name(cookie)
        samesite_info == extract_samesite(cookie)
        max_age       == cookies_extract_max_age(cookie)
    IN  push_if(~contains(to_lowercase(cookie), "secure"),
            SecurityIssue("Cookie Security", "Medium",
                "Cookie '" \o cookie_name \o "' missing Secure flag",
                "Add 'Secure' flag to ensure cookie is only sent over HTTPS"))
        \o (IF ~contains(to_lowercase(cookie), "httponly")
            THEN IF is_sensitive_cookie(cookie_name)
                 THEN << SecurityIssue("Cookie Security", "Medium",
                             "Cookie '" \o cookie_name \o "' missing HttpOnly flag",
                             "Add 'HttpOnly' flag to prevent JavaScript access and XSS attacks") >>
                 ELSE << SecurityIssue("Cookie Security", "Low",
                             "Cookie '" \o cookie_name \o "' missing HttpOnly flag",
                             "Consider adding 'HttpOnly' flag unless JavaScript access is required") >>
            ELSE << >>)
        \o push_if(samesite_info = "None",
            SecurityIssue("Cookie Security", "Medium",
                "Cookie '" \o cookie_name \o "' has SameSite=None",
                "SameSite=None requires Secure flag and allows cross-site requests. Use Lax or Strict if possible."))
        \o push_if(samesite_info = "Missing",
            SecurityIssue("Cookie Security", "Low",
                "Cookie '" \o cookie_name \o "' missing SameSite attribute",
                "Add 'SameSite=Lax' or 'SameSite=Strict' to prevent CSRF attacks"))
        \o push_if(is_some(max_age) /\ NumGt(unwrap(max_age), cookie_max_age_limit),
            SecurityIssue("Cookie Security", "Info",
                "Cookie '" \o cookie_name \o "' has very long expiration (>1 year)",
                "Consider shorter expiration times for sensitive cookies"))
        \o cookie_prefix_rules(cookie, cookie_name)

\* get_all("set-cookie").iter().filter_map(|v| v.to_str().ok()).collect()
decodable_cookies(h) ==
    SelectSeq(get_all(h, "set-cookie"), LAMBDA v : is_some(to_str(v)))

\* a slip: `return issues` inside the loop body, after the first cookie
cookies_loop_first(cookies, i) ==
    IF i > Len(cookies) THEN << >>
    ELSE cookie_rules(cookies[i])

RECURSIVE cookies_loop(_, _)
cookies_loop(cookies, i) ==
    IF i > Len(cookies) THEN << >>
    ELSE cookie_rules(cookies[i]) \o cookies_loop(cookies, i + 1)

cookies_check(h) == cookies_loop(decodable_cookies(h), 1)

----------------------------------------------------------------------------
(* scanner.rs: Scanner::check_additional_headers                           *)

check_additional_headers(h) ==
    LET xss == get(h, "x-xss-protection")
    IN  push_if(~contains_key(h, "x-content-type-options"),
            SecurityIssue("X-Content-Type-Options", "Low",
                "Missing X-Content-Type-Options header",
                "Add 'X-Content-Type-Options: nosniff' to prevent MIME sniffing"))
        \o push_if(/\ is_some(xss)
                   /\ is_some(to_str(unwrap(xss)))
                   /\ contains(unwrap(to_str(unwrap(xss))), "0"),
            SecurityIssue("X-XSS-Protection", "Low",
                "X-XSS-Protection is disabled",
                "Consider removing this header (deprecated) and using CSP instead"))
        \o push_if(~contains_key(h, "referrer-policy"),
            SecurityIssue("Referrer-Policy", "Low",
                "Missing Referrer-Policy header",
                "Add 'Referrer-Policy: strict-origin-when-cross-origin' or stricter"))
        \o push_if(~contains_key(h, "permissions-policy"),
            SecurityIssue("Permissions-Policy", "Info",
                "Missing Permissions-Policy header",
                "Consider adding Permissions-Policy to control browser features"))

----------------------------------------------------------------------------
(* checks/mod.rs: ScanResult                                               *)

ScanResult(url, status, result_issues) ==
    [url |-> url, status |-> status, issues |-> result_issues]

\* a slip: one arm of the pattern is missing
severity_matches_no_info(a, b) ==
    <<a, b>> \in { <<"Critical", "Critical">>, <<"High", "High">>,
                   <<"Medium", "Medium">>, <<"Low", "Low">> }

\* the matches!((&i.severity, severity), (Critical, Critical) | ... ) filter
severity_matches(a, b) ==
    <<a, b>> \in { <<"Critical", "Critical">>, <<"High", "High">>,
                   <<"Medium", "Medium">>, <<"Low", "Low">>, <<"Info", "Info">> }

RECURSIVE count_from(_, _, _)
count_from(result_issues, severity, i) ==
    IF i > Len(result_issues) THEN 0
    ELSE (IF severity_matches(result_issues[i].severity, severity) THEN 1 ELSE 0)
         + count_from(result_issues, severity, i + 1)

count_by_severity(result, severity) == count_from(result.issues, severity, 1)

\* a slip: matches!(i.severity, Severity::Critical | Severity::High)
has_critical_or_high(result) ==
    \E i \in 1..Len(result.issues) : result.issues[i].severity \in {"Critical", "High"}

has_critical(result) ==
    \E i \in 1..Len(result.issues) : result.issues[i].severity = "Critical"

----------------------------------------------------------------------------
(* scanner.rs: Scanner::normalize_url                                      *)

\* Url::parse, as far as the targets of the model need it: a special
\* scheme's URL must name a host, and a host holds no blank.
url_parse(text) ==
    LET host == IF starts_with(text, "https://") THEN SubSeq(text, 9, Len(text))
                ELSE SubSeq(text, 8, Len(text))
    IN  IF host = "" \/ contains(host, " ") THEN None ELSE Some(text)

normalize_url(target) ==
    LET normalized ==
            IF starts_with(target, "http://") \/ starts_with(target, "https://")
            THEN target
            ELSE "https://" \o target
    IN  url_parse(normalized)

----------------------------------------------------------------------------
(* The world: what the HTTP client answers for a target.                   *)

NetErrors == {"connect", "tls", "timeout", "redirect"}

Failure(kind) == [kind |-> kind, status |-> 0, headers |-> NoHeaders]

Response(status, h) == [kind |-> "ok", status |-> status, headers |-> h]

----------------------------------------------------------------------------
(* The state machine: main's loop over the targets (main.rs) and, inside   *)
(* it, Scanner::scan statement by statement (scanner.rs).                  *)

ScanPcs == {"csp", "cors", "hsts", "xframe", "cookies", "misc", "ret"}

\* `for url in urls` takes the next target and scan() normalizes it
NormalizeOk ==
    /\ pc = "loop"
    /\ idx <= Len(urls)
    /\ is_some(normalize_url(urls[idx]))
    /\ attempted' = Append(attempted, urls[idx])
    /\ pc' = "send"
    /\ UNCHANGED <<urls, net, idx, headers, issues, outs, ran, all_results, errors>>

\* normalize_url(target)? returns the parse error: main's Err arm
NormalizeErr ==
    /\ pc = "loop"
    /\ idx <= Len(urls)
    /\ ~is_some(normalize_url(urls[idx]))
    /\ attempted' = Append(attempted, urls[idx])
    /\ errors' = Append(errors, urls[idx])
    /\ idx' = idx + 1
    /\ UNCHANGED <<urls, net, pc, headers, issues, outs, ran, all_results>>

\* a slip: the error leaves main (a `?` on scan's result) instead of the Err arm
SendErrAborts ==
    /\ pc = "send"
    /\ net[idx].kind # "ok"
    /\ errors' = Append(errors, urls[idx])
    /\ pc' = "exit"
    /\ UNCHANGED <<urls, net, idx, headers, issues, outs, ran, all_results, attempted>>

\* client.get(url).send().await? fails: main's Err arm
SendErr ==
    /\ pc = "send"
    /\ net[idx].kind # "ok"
    /\ errors' = Append(errors, urls[idx])
    /\ idx' = idx + 1
    /\ pc' = "loop"
    /\ UNCHANGED <<urls, net, headers, issues, outs, ran, all_results, attempted>>

\* a slip: `issues` lives on across scans (a field of the Scanner), it is
\* not made anew for the response
SendOkKeepsIssues ==
    /\ pc = "send"
    /\ net[idx].kind = "ok"
    /\ headers' = net[idx].headers
    /\ outs' = << >>
    /\ ran' = << >>
    /\ pc' = "csp"
    /\ UNCHANGED <<urls, net, idx, issues, all_results, attempted, errors>>

\* the response arrives: headers cloned, `let mut issues = Vec::new()`
SendOk ==
    /\ pc = "send"
    /\ net[idx].kind = "ok"
    /\ headers' = net[idx].headers
    /\ issues' = << >>
    /\ outs' = << >>
    /\ ran' = << >>
    /\ pc' = "csp"
    /\ UNCHANGED <<urls, net, idx, all_results, attempted, errors>>

\* a slip: the module's findings are put in front of the earlier ones
extend_front(found) ==
    /\ issues' = found \o issues
    /\ outs' = Append(outs, found)
    /\ UNCHANGED <<urls, net, idx, headers, all_results, attempted, errors>>

\* issues.extend(found)
extend(found) ==
    /\ issues' = issues \o found
    /\ outs' = Append(outs, found)
    /\ UNCHANGED <<urls, net, idx, headers, all_results, attempted, errors>>

CheckCsp ==
    /\ pc = "csp"
    /\ extend(csp_check(headers))
    /\ ran' = Append(ran, 1)
    /\ pc' = "cors"

CheckCors ==
    /\ pc = "cors"
    /\ extend(cors_check(headers))
    /\ ran' = Append(ran, 2)
    /\ pc' = "hsts"

CheckHsts ==
    /\ pc = "hsts"
    /\ extend(hsts_check(headers))
    /\ ran' = Append(ran, 3)
    /\ pc' = "xframe"

CheckXframe ==
    /\ pc = "xframe"
    /\ extend(xframe_check(headers))
    /\ ran' = Append(ran, 4)
    /\ pc' = "cookies"

CheckCookies ==
    /\ pc = "cookies"
    /\ extend(cookies_check(headers))
    /\ ran' = Append(ran, 5)
    /\ pc' = "misc"

CheckAdditional ==
    /\ pc = "misc"
    /\ extend(check_additional_headers(headers))
    /\ ran' = Append(ran, 6)
    /\ pc' = "ret"

\* Ok(ScanResult { .. }) and main's Ok arm: all_results.push(result)
ReturnOk ==
    /\ pc = "ret"
    /\ all_results' =
          Append(all_results,
                 ScanResult(unwrap(normalize_url(urls[idx])), net[idx].status, issues))
    /\ idx' = idx + 1
    /\ pc' = "loop"
    /\ UNCHANGED <<urls, net, headers, issues, outs, ran, attempted, errors>>

\* the loop is over: main returns Ok(())
Finish ==
    /\ pc = "loop"
    /\ idx > Len(urls)
    /\ pc' = "exit"
    /\ UNCHANGED <<urls, net, idx, headers, issues, outs, ran, all_results, attempted, errors>>

Next ==
    \/ NormalizeOk
    \/ NormalizeErr
    \/ SendErr
    \/ SendOk
    \/ CheckCsp
    \/ CheckCors
    \/ CheckHsts
    \/ CheckXframe
    \/ CheckCookies
    \/ CheckAdditional
    \/ ReturnOk
    \/ Finish

\* The six calls of scan taken in whatever order over the one snapshot: each
\* module is handed `&headers` and nothing else, and its findings are put
\* back in the order of scan's calls once all six have returned.

SendOkAnyOrder ==
    /\ pc = "send"
    /\ net[idx].kind = "ok"
    /\ headers' = net[idx].headers
    /\ issues' = << >>
    /\ outs' = << >>
    /\ ran' = << >>
    /\ pc' = "any"
    /\ UNCHANGED <<urls, net, idx, all_results, attempted, errors>>

Called(k) == \E i \in 1..Len(ran) : ran[i] = k

RunCsp ==
    /\ pc = "any" /\ ~Called(1)
    /\ extend(csp_check(headers))
    /\ ran' = Append(ran, 1)
    /\ pc' = "any"

RunCors ==
    /\ pc = "any" /\ ~Called(2)
    /\ extend(cors_check(headers))
    /\ ran' = Append(ran, 2)
    /\ pc' = "any"

RunHsts ==
    /\ pc = "any" /\ ~Called(3)
    /\ extend(hsts_check(headers))
    /\ ran' = Append(ran, 3)
    /\ pc' = "any"

RunXframe ==
    /\ pc = "any" /\ ~Called(4)
    /\ extend(xframe_check(headers))
    /\ ran' = Append(ran, 4)
    /\ pc' = "any"

RunCookies ==
    /\ pc = "any" /\ ~Called(5)
    /\ extend(cookies_check(headers))
    /\ ran' = Append(ran, 5)
    /\ pc' = "any"

RunAdditional ==
    /\ pc = "any" /\ ~Called(6)
    /\ extend(check_additional_headers(headers))
    /\ ran' = Append(ran, 6)
    /\ pc' = "any"

\* the outputs of the modules k, k+1, .. 6, whenever each was called
RECURSIVE InCallOrderOfScan(_)
InCallOrderOfScan(k) ==
    IF k > 6 THEN << >>
    ELSE outs[CHOOSE i \in 1..Len(ran) : ran[i] = k] \o InCallOrderOfScan(k + 1)

Collect ==
    /\ pc = "any"
    /\ Len(ran) = 6
    /\ issues' = InCallOrderOfScan(1)
    /\ pc' = "ret"
    /\ UNCHANGED <<urls, net, idx, headers, outs, ran, all_results, attempted, errors>>

NextAnyOrder ==
    \/ NormalizeOk
    \/ NormalizeErr
    \/ SendErr
    \/ SendOkAnyOrder
    \/ RunCsp
    \/ RunCors
    \/ RunHsts
    \/ RunXframe
    \/ RunCookies
    \/ RunAdditional
    \/ Collect
    \/ ReturnOk
    \/ Finish

\* main before the loop: the targets are read, nothing is scanned yet
Start(targets, world) ==
    /\ urls = targets
    /\ net = world
    /\ idx = 1
    /\ pc = "loop"
    /\ headers = NoHeaders
    /\ issues = << >>
    /\ outs = << >>
    /\ ran = << >>
    /\ all_results = << >>
    /\ attempted = << >>
    /\ errors = << >>

----------------------------------------------------------------------------
(* Inputs.  A header value is built the way a server writes it: directives *)
(* joined by "; ".  Every pool below lists real header text; the bounds    *)
(* limit how many pieces one value is made of.                             *)

MaxDirectives == 2

MaxHstsAges == 2

MaxCookieAttrs == 3

MaxTargets == 3

\* the most Set-Cookie headers of one response, where cookies are combined
MaxCookies == 2

RECURSIVE Join(_, _)
Join(pieces, sep) ==
    IF pieces = << >> THEN ""
    ELSE IF Len(pieces) = 1 THEN pieces[1]
    ELSE pieces[1] \o sep \o Join(Tail(pieces), sep)

SeqsUpTo(S, n) == UNION { [1..k -> S] : k \in 0..n }

\* a header that is absent, or present once with one of the given values
Absent == << >>

Once(values) == { << v >> : v \in values }

Opaque == "caf" \o OpaqueByte

\* the header sets that take, for each header of `names`, one of its pool's
\* entries, and leave every other header absent
RECURSIVE HeaderSets(_, _)
HeaderSets(pool, names) ==
    IF names = {} THEN { NoHeaders }
    ELSE LET n == CHOOSE m \in names : TRUE
         IN  { [h EXCEPT ![n] = v] : h \in HeaderSets(pool, names \ {n}), v \in pool[n] }

Family(pool) == HeaderSets(pool, DOMAIN pool)

\* one target: it answers with one of the family's header sets, or the
\* request fails, or the target is no URL at all
OneTarget(family) ==
    { << <<"example.com">>, << Response(200, h) >> >> : h \in family }
        \cup { << <<"example.com">>, << Failure(k) >> >> : k \in NetErrors }
        \cup { << <<"https://">>, << Failure("connect") >> >> }

(* Content-Security-Policy *)

CspDirectives ==
    {"default-src 'self'", "default-src *", "script-src *",
     "script-src 'self' https: 'unsafe-inline'", "script-src 'self' data: https:",
     "object-src 'none'", "object-src *", "base-uri 'self'",
     "upgrade-insecure-requests", "x-default-src *", "default-src-extended *"}

CspValues == { Join(d, "; ") : d \in SeqsUpTo(CspDirectives, MaxDirectives) }

CspFamily ==
    Family("content-security-policy" :> ({Absent} \cup Once(CspValues \cup {Opaque}))
           @@ "x-content-security-policy" :>
                  ({Absent} \cup Once({"default-src 'self'; object-src 'none'", Opaque}))
           @@ "strict-transport-security" :> ({Absent} \cup Once({"max-age=31536000"})))

\* source lists with a lone '*' at each position, and without one
SourceLists ==
    {"*", "* 'self'", "'self' * data:", "'self' *", "'self'", "https://*.a.example", "'self'  *"}

WildcardValues ==
    { "script-src " \o s : s \in SourceLists }
        \cup { "default-src " \o d : d \in SourceLists }
        \cup { "script-src " \o s \o "; default-src " \o d : s \in SourceLists, d \in SourceLists }

\* policies in which a directive stands with no value
EmptyValues ==
    {"default-src", "object-src", "default-src; object-src 'none'",
     "default-src 'self'; object-src", "default-src ; object-src ;",
     "script-src; default-src 'self'; object-src 'none'"}

CspShapeFamily ==
    Family("content-security-policy" :> ({Absent} \cup Once(WildcardValues \cup EmptyValues)))

(* CORS *)

CorsFamily ==
    Family("access-control-allow-origin" :>
               ({Absent} \cup Once({"*", "null", "http://a.example",
                                    "https://a.example", Opaque}))
           @@ "access-control-allow-credentials" :>
               ({Absent} \cup Once({"true", "TRUE", "True", "false", Opaque}))
           @@ "access-control-allow-methods" :>
               ({Absent} \cup Once({"GET, POST", "*", "get, put", Opaque}))
           @@ "access-control-allow-headers" :>
               ({Absent} \cup Once({"X-Token", "*", Opaque}))
           @@ "access-control-max-age" :>
               ({Absent} \cup Once({"600", "86400", "86401", "2147483647", "2147483648",
                                    Opaque})))

(* Strict-Transport-Security *)

HstsAges ==
    {"max-age=0", "max-age=3600", "max-age=15767999", "max-age=15768000",
     "max-age=31535999", "max-age=31536000", "max-age=63072000",
     "Max-Age = 3600", "max-age=-1", "max-age=soon", "max-age-foo=5"}

HstsFlags ==
    {<< >>, <<"includeSubDomains">>, <<"preload">>,
     <<"includeSubDomains", "preload">>, <<"PRELOAD", "includesubdomains">>}

HstsValues ==
    { Join(a \o f, "; ") : a \in SeqsUpTo(HstsAges, MaxHstsAges), f \in HstsFlags }
        \cup { Join(f \o a, "; ") : a \in SeqsUpTo(HstsAges, MaxHstsAges), f \in HstsFlags }

HstsFamily ==
    Family("strict-transport-security" :> ({Absent} \cup Once(HstsValues \cup {Opaque})))

(* X-Frame-Options and the CSP frame-ancestors directive *)

FrameDirectives ==
    {"default-src 'self'", "frame-ancestors 'none'", "frame-ancestors *",
     "frame-ancestors http://a.example", "frame-ancestors-x *",
     "report-uri /frame-ancestors"}

FrameCspValues == { Join(d, "; ") : d \in SeqsUpTo(FrameDirectives, MaxDirectives) }

FrameFamily ==
    Family("x-frame-options" :>
               ({Absent} \cup Once({"DENY", "SAMEORIGIN", "ALLOWALL", "allowall",
                                    "Allow-All", "ALLOW-FROM https://a.example", Opaque}))
           @@ "content-security-policy" :>
               ({Absent} \cup Once(FrameCspValues \cup {Opaque})))

(* Set-Cookie *)

CookieNames == {"id", "session_id", "__Host-id", "__Secure-id", "__host-id"}

CookieAttrs ==
    <<"Secure", "HttpOnly", "SameSite=Strict", "SameSite=Lax", "SameSite=None",
      "Max-Age=3600", "Max-Age=31536001", "Domain=example.com", "Path=/",
      "Path=/admin", "secure", "Max-Age=forever">>

\* the attributes picked by a set of positions, in the pool's order
RECURSIVE PickAttrs(_, _)
PickAttrs(picked, i) ==
    IF i > Len(CookieAttrs) THEN << >>
    ELSE (IF i \in picked THEN << CookieAttrs[i] >> ELSE << >>) \o PickAttrs(picked, i + 1)

AttrLists ==
    { PickAttrs(picked, 1) :
        picked \in { q \in SUBSET (1..Len(CookieAttrs)) : Cardinality(q) <= MaxCookieAttrs } }

Cookies ==
    { Join(<< name \o "=1" >> \o attrs, "; ") : name \in CookieNames, attrs \in AttrLists }

\* responses that set several cookies
SomeCookies ==
    {"id=1", "session_id=1; Secure; HttpOnly; SameSite=Strict",
     "__Host-id=1; Domain=example.com", Opaque}

CookieFamily ==
    Family("set-cookie" :> ({Absent} \cup Once(Cookies \cup {Opaque})
                               \cup SeqsUpTo(SomeCookies, MaxCookies)))

(* A mix over all six modules *)

MixedFamily ==
    Family("content-security-policy" :>
               ({Absent} \cup Once({"default-src 'self'; script-src *; frame-ancestors *",
                                    "x-default-src *; frame-ancestors-x http://a.example",
                                    Opaque}))
           @@ "access-control-allow-origin" :> ({Absent} \cup Once({"*", Opaque}))
           @@ "access-control-allow-credentials" :> ({Absent} \cup Once({"true"}))
           @@ "strict-transport-security" :>
               ({Absent} \cup Once({"max-age=3600", "max-age-foo=5; preload", Opaque}))
           @@ "x-frame-options" :> ({Absent} \cup Once({"DENY", "ALLOWALL", Opaque}))
           @@ "set-cookie" :>
               {Absent, <<"id=1">>, <<"=1", "">>,
                <<"__Host-id=1; Domain=a.example", Opaque, "sid=2; Secure; HttpOnly; SameSite=Lax">>}
           @@ "x-xss-protection" :> ({Absent} \cup Once({"0"}))
           @@ "referrer-policy" :> ({Absent} \cup Once({"no-referrer"})))

(* Responses on which one module's findings bear on headers another reads *)

AnyOrderFamily ==
    Family("content-security-policy" :>
               ({Absent} \cup Once({"default-src 'self'; frame-ancestors *"}))
           @@ "strict-transport-security" :> ({Absent} \cup Once({"max-age=3600"}))
           @@ "x-frame-options" :> ({Absent} \cup Once({"DENY"}))
           @@ "set-cookie" :> {Absent, <<"id=1", "sid=2; Secure">>})

(* Several targets *)

SmallFamily ==
    << [NoHeaders EXCEPT !["access-control-allow-origin"] = <<"*">>,
                         !["access-control-allow-credentials"] = <<"true">>],
       [NoHeaders EXCEPT !["content-security-policy"] = <<"default-src 'self'">>,
                         !["x-frame-options"] = <<"DENY">>] >>

\* a target together with the answer it gets
Visits ==
    { <<"example.com", Response(200, SmallFamily[1])>>,
      <<"http://example.org", Response(404, SmallFamily[2])>>,
      <<"https://", Failure("connect")>>,
      <<"example.com", Failure("connect")>>,
      <<"example.com", Failure("tls")>>,
      <<"http://example.org", Failure("timeout")>>,
      <<"http://example.org", Failure("redirect")>> }

ManyTargets ==
    { << [i \in 1..Len(v) |-> v[i][1]], [i \in 1..Len(v) |-> v[i][2]] >> :
        v \in SeqsUpTo(Visits, MaxTargets) }

----------------------------------------------------------------------------
(* Specifications: the same program, started on different inputs           *)

InitWith(worlds) == \E w \in worlds : Start(w[1], w[2])

Init == InitWith(OneTarget(MixedFamily))

Spec == Init /\ [][Next]_vars

InitCsp ==
    InitWith(OneTarget(CspFamily
        \cup { h \in MixedFamily : ~contains_key(h, "content-security-policy") }))

SpecCsp == InitCsp /\ [][Next]_vars

InitCspShapes == InitWith(OneTarget(CspShapeFamily))

SpecCspShapes == InitCspShapes /\ [][Next]_vars

InitCors == InitWith(OneTarget(CorsFamily))

SpecCors == InitCors /\ [][Next]_vars

InitHsts == InitWith(OneTarget(HstsFamily))

SpecHsts == InitHsts /\ [][Next]_vars

InitFrame == InitWith(OneTarget(FrameFamily))

SpecFrame == InitFrame /\ [][Next]_vars

InitCookies == InitWith(OneTarget(CookieFamily))

SpecCookies == InitCookies /\ [][Next]_vars

InitAnyOrder == InitWith(OneTarget(AnyOrderFamily))

SpecAnyOrder == InitAnyOrder /\ [][NextAnyOrder]_vars

InitMain == InitWith(ManyTargets)

SpecMain == InitMain /\ [][Next]_vars

----------------------------------------------------------------------------
(* Properties.  outs[k] is what the k-th module returned for `headers`.    *)

HasSeverity(found, severity) ==
    \E i \in 1..Len(found) : found[i].severity = severity

HasMessage(found, text) ==
    \E i \in 1..Len(found) : contains(found[i].message, text)

HeaderText(name) == unwrap(to_str(unwrap(get(headers, name))))

Decodes(name) ==
    is_some(get(headers, name)) /\ is_some(to_str(unwrap(get(headers, name))))

CspRan == Len(outs) >= 1

CorsRan == Len(outs) >= 2

HstsRan == Len(outs) >= 3

XframeRan == Len(outs) >= 4

CookiesRan == Len(outs) >= 5

(* C1: a header set with neither Content-Security-Policy nor               *)
(* X-Content-Security-Policy makes the CSP check return exactly one        *)
(* finding, of severity High, whatever the other headers are.              *)
C1_NoCspOneHigh ==
    (/\ CspRan
     /\ ~contains_key(headers, "content-security-policy")
     /\ ~contains_key(headers, "x-content-security-policy"))
        => (Len(outs[1]) = 1 /\ outs[1][1].severity = "High")

C1_Witness ==
    /\ pc = "cors"
    /\ ~contains_key(headers, "content-security-policy")
    /\ ~contains_key(headers, "x-content-security-policy")
    /\ contains_key(headers, "strict-transport-security")
    /\ contains_key(headers, "x-frame-options")
    /\ outs[1] = << csp_missing >>

(* C2: with Access-Control-Allow-Origin exactly "*" and                    *)
(* Access-Control-Allow-Credentials equal to "true" in any letter case the *)
(* CORS check reports a Critical and a Medium finding; with origin "*" and *)
(* no other Access-Control-* header it reports the one Medium finding only.*)
C2_WildcardOrigin ==
    (CorsRan /\ get(headers, "access-control-allow-origin") = Some("*"))
        => /\ (/\ Decodes("access-control-allow-credentials")
               /\ to_lowercase(HeaderText("access-control-allow-credentials")) = "true")
                  => (HasSeverity(outs[2], "Critical") /\ HasSeverity(outs[2], "Medium"))
           /\ (\A n \in {"access-control-allow-credentials", "access-control-allow-methods",
                         "access-control-allow-headers", "access-control-max-age"} :
                   ~contains_key(headers, n))
                  => (Len(outs[2]) = 1 /\ outs[2][1].severity = "Medium")

C2_Witness ==
    /\ pc = "hsts"
    /\ get(headers, "access-control-allow-origin") = Some("*")
    /\ get(headers, "access-control-allow-credentials") = Some("TRUE")
    /\ HasSeverity(outs[2], "Critical")
    /\ HasSeverity(outs[2], "Medium")

\* The directive token of one ';'-separated piece: its text up to the first
\* blank or '='.
RECURSIVE TokenEnd(_, _)
TokenEnd(t, i) ==
    IF i > Len(t) \/ is_whitespace(CharAt(t, i)) \/ CharAt(t, i) = "=" THEN i - 1
    ELSE TokenEnd(t, i + 1)

DirectiveToken(piece) == SubSeq(trim(piece), 1, TokenEnd(trim(piece), 1))

\* the text after the token, without blanks and without one leading '='
DirectiveValue(piece) ==
    LET t    == trim(piece)
        rest == trim(SubSeq(t, TokenEnd(t, 1) + 1, Len(t)))
    IN  IF starts_with(rest, "=") THEN trim(SubSeq(rest, 2, Len(rest))) ELSE rest

\* the pieces of a header whose directive token is exactly `name`
PiecesNamed(text, name) ==
    SelectSeq(split(text, ";"), LAMBDA piece : to_lowercase(DirectiveToken(piece)) = name)

\* the integer a header's max-age directive holds, if it holds one
MaxAgeOf(text) ==
    IF PiecesNamed(text, "max-age") = << >> THEN None
    ELSE parse_i64(DirectiveValue(PiecesNamed(text, "max-age")[1]))

(* C3: a Strict-Transport-Security header whose max-age is an integer      *)
(* below 15768000 yields the Medium "too short" and the Info "less than    *)
(* 1 year" findings; one whose max-age is at least 31536000 and that holds *)
(* includeSubDomains and preload yields no finding.                        *)
C3_HstsThresholds ==
    (HstsRan /\ Decodes("strict-transport-security"))
        => LET hsts == HeaderText("strict-transport-security")
               age  == MaxAgeOf(hsts)
           IN  /\ (is_some(age) /\ NumLt(unwrap(age), Num(FALSE, "15768000")))
                     => /\ \E i \in 1..Len(outs[3]) :
                              /\ outs[3][i].severity = "Medium"
                              /\ contains(outs[3][i].message, "too short")
                        /\ \E i \in 1..Len(outs[3]) :
                              /\ outs[3][i].severity = "Info"
                              /\ contains(outs[3][i].message, "less than 1 year")
               /\ (/\ is_some(age)
                   /\ ~NumLt(unwrap(age), Num(FALSE, "31536000"))
                   /\ PiecesNamed(hsts, "includesubdomains") # << >>
                   /\ PiecesNamed(hsts, "preload") # << >>)
                     => outs[3] = << >>

\* a cookie's attributes: the pieces after the name=value pair
CookieAttrPieces(cookie) == Tail(split(cookie, ";"))

CookieHasAttr(cookie, name) ==
    \E i \in 1..Len(CookieAttrPieces(cookie)) :
        to_lowercase(DirectiveToken(CookieAttrPieces(cookie)[i])) = name

CookieAttrValues(cookie, name) ==
    { to_lowercase(DirectiveValue(CookieAttrPieces(cookie)[i])) :
        i \in { j \in 1..Len(CookieAttrPieces(cookie)) :
                  to_lowercase(DirectiveToken(CookieAttrPieces(cookie)[j])) = name } }

CookieName(cookie) == trim(split(cookie, "=")[1])

OneCookie ==
    /\ CookiesRan
    /\ Len(get_all(headers, "set-cookie")) = 1
    /\ is_some(to_str(get_all(headers, "set-cookie")[1]))

C5_AllowAllHigh ==
    (/\ XframeRan
     /\ Decodes("x-frame-options")
     /\ \/ contains(to_uppercase(HeaderText("x-frame-options")), "ALLOWALL")
        \/ contains(to_uppercase(HeaderText("x-frame-options")), "ALLOW-ALL"))
        => \E i \in 1..Len(outs[4]) :
              /\ outs[4][i].severity = "High"
              /\ outs[4][i].category = "X-Frame-Options"

C5_Witness ==
    /\ pc = "cookies"
    /\ get(headers, "x-frame-options") = Some("allowall")
    /\ get(headers, "content-security-policy") = Some("frame-ancestors 'none'")
    /\ HasMessage(outs[4], "X-Frame-Options is set to ALLOWALL")

\* the concatenation of the module outputs gathered so far
RECURSIVE Flatten(_)
Flatten(found) == IF found = << >> THEN << >> ELSE Head(found) \o Flatten(Tail(found))

\* the k-th module of the canonical order, evaluated on a header set
ModuleOutput(k, h) ==
    CASE k = 1 -> csp_check(h)
      [] k = 2 -> cors_check(h)
      [] k = 3 -> hsts_check(h)
      [] k = 4 -> xframe_check(h)
      [] k = 5 -> cookies_check(h)
      [] k = 6 -> check_additional_headers(h)

\* the scan of the latest response has returned its result
Returned == all_results # << >> /\ pc \in {"loop", "send", "exit"} /\ outs # << >>

LastResult == all_results[Len(all_results)]

(* C6: the issues of a ScanResult are the outputs of CSP, CORS, HSTS,      *)
(* Framing, Cookies, Miscellaneous in that order over the one header       *)
(* snapshot, each module's findings in the order it produced them.         *)
C6_CanonicalOrder ==
    /\ \A k \in 1..Len(outs) : outs[k] = ModuleOutput(k, headers)
    /\ pc \in ScanPcs => issues = Flatten(outs)
    /\ Returned => (Len(outs) = 6 /\ LastResult.issues = Flatten(outs))

\* a returned result in which a Critical finding follows a weaker one of an
\* earlier module: the sequence is not ordered by severity
C6_Witness ==
    /\ Returned
    /\ \E i, j \in 1..Len(LastResult.issues) :
          /\ i < j
          /\ LastResult.issues[i].severity = "Info"
          /\ LastResult.issues[i].category = "CSP"
          /\ LastResult.issues[j].severity = "Critical"
          /\ LastResult.issues[j].category = "CORS"

\* the positions of the targets whose scan succeeds, in input order
RECURSIVE Successes(_)
Successes(i) ==
    IF i > Len(urls) THEN << >>
    ELSE (IF is_some(normalize_url(urls[i])) /\ net[i].kind = "ok" THEN << i >> ELSE << >>)
         \o Successes(i + 1)

(* C7: a target whose scan fails does not end the run: every target is     *)
(* attempted once, in input order, and the collected results are those of  *)
(* the targets that succeeded, in input order.                             *)
C7_FailuresDoNotAbort ==
    /\ attempted = SubSeq(urls, 1, Len(attempted))
    /\ Len(attempted) \in {idx - 1, idx}
    /\ pc = "exit" =>
          /\ attempted = urls
          /\ Len(all_results) = Len(Successes(1))
          /\ \A k \in 1..Len(all_results) :
                LET i == Successes(1)[k]
                IN  /\ all_results[k].url = unwrap(normalize_url(urls[i]))
                    /\ all_results[k].status = net[i].status
                    /\ all_results[k].issues =
                          Flatten([m \in 1..6 |-> ModuleOutput(m, net[i].headers)])

\* a finished run of three targets: a failed request, a target that is no
\* URL, then a success, whose result is the one collected
C7_Witness ==
    /\ pc = "exit"
    /\ Len(urls) = 3
    /\ net[1].kind = "tls"
    /\ ~is_some(normalize_url(urls[2]))
    /\ net[3].kind = "ok"
    /\ Len(all_results) = 1
    /\ errors = << urls[1], urls[2] >>

SumOverSeverities(result) ==
    count_by_severity(result, "Critical") + count_by_severity(result, "High")
        + count_by_severity(result, "Medium") + count_by_severity(result, "Low")
        + count_by_severity(result, "Info")

(* C8: for every ScanResult the counts of the five severities add up to    *)
(* the number of issues, and each count is the number of issues of exactly *)
(* that severity.                                                          *)
C8_CountsAddUp ==
    \A k \in 1..Len(all_results) :
        /\ SumOverSeverities(all_results[k]) = Len(all_results[k].issues)
        /\ \A s \in Severity :
              count_by_severity(all_results[k], s) =
                  Cardinality({ i \in 1..Len(all_results[k].issues) :
                                  all_results[k].issues[i].severity = s })

C8_Witness ==
    /\ all_results # << >>
    /\ \A s \in Severity : count_by_severity(LastResult, s) >= 1
    /\ count_by_severity(LastResult, "Info") >= 2

\* the pieces of a header whose directive token is exactly `name`, case kept
ExactPieces(text, name) ==
    SelectSeq(split(text, ";"), LAMBDA piece : DirectiveToken(piece) = name)

(* C9: a directive lookup for a name succeeds only when some ';'-separated *)
(* piece of the header has exactly that name as its directive token: in    *)
(* extract_directive (CSP), extract_frame_ancestors (framing) and          *)
(* extract_max_age (HSTS).                                                 *)
C9_ExactTokenOnly ==
    /\ (CspRan /\ is_some(csp_header(headers)) /\ is_some(to_str(unwrap(csp_header(headers)))))
          => \A name \in {"default-src", "script-src", "object-src"} :
                is_some(extract_directive(unwrap(csp_header(headers)), name))
                    => ExactPieces(unwrap(csp_header(headers)), name) # << >>
    /\ (XframeRan /\ Decodes("content-security-policy"))
          => (is_some(extract_frame_ancestors(HeaderText("content-security-policy")))
                => ExactPieces(HeaderText("content-security-policy"), "frame-ancestors") # << >>)
    /\ (HstsRan /\ Decodes("strict-transport-security"))
          => (is_some(hsts_extract_max_age(HeaderText("strict-transport-security")))
                => PiecesNamed(HeaderText("strict-transport-security"), "max-age") # << >>)

\* the header a module keys on is present and cannot be decoded as text
KeyHeader(k) ==
    CASE k = 1 -> csp_header(headers)
      [] k = 2 -> get(headers, "access-control-allow-origin")
      [] k = 3 -> get(headers, "strict-transport-security")
      [] k = 4 -> get(headers, "x-frame-options")

KeyUndecodable(k) == is_some(KeyHeader(k)) /\ ~is_some(to_str(unwrap(KeyHeader(k))))

\* the scan goes on through all six modules and returns its result
ScanCompletes ==
    /\ pc = "ret" => Len(outs) = 6
    /\ Returned => (Len(outs) = 6 /\ LastResult.issues = Flatten(outs))

(* C10 as stated: a check whose header cannot be decoded returns the       *)
(* findings gathered before the failure (none, the header being read       *)
(* first), adds no finding for the failure, and the scan goes on; for the  *)
(* CSP, CORS, HSTS and Framing checks.                                     *)
C10_Original ==
    /\ \A k \in 1..4 : (Len(outs) >= k /\ KeyUndecodable(k)) => outs[k] = << >>
    /\ ScanCompletes

(* C10 amended: the CORS, HSTS and Framing checks return no finding when   *)
(* the header they key on cannot be decoded; the CSP check returns exactly *)
(* one finding, the Medium "invalid encoding" one; the scan goes on.       *)
C10_DecodeFailure ==
    /\ \A k \in 2..4 : (Len(outs) >= k /\ KeyUndecodable(k)) => outs[k] = << >>
    /\ (CspRan /\ KeyUndecodable(1))
          => /\ Len(outs[1]) = 1
             /\ outs[1][1].severity = "Medium"
             /\ outs[1][1].category = "CSP"
             /\ outs[1][1].message = "Content-Security-Policy header has invalid encoding"
    /\ ScanCompletes

\* every keyed header undecodable, the remaining modules still report
C10_Witness ==
    /\ Returned
    /\ \A k \in 1..4 : KeyUndecodable(k)
    /\ get(headers, "content-security-policy") = Some(Opaque)
    /\ outs[2] = << >> /\ outs[3] = << >> /\ outs[4] = << >>
    /\ outs[5] # << >> /\ outs[6] # << >>

\* a header has a max-age directive, and the value of the first one is no
\* integer an i64 holds
MaxAgeUnparsable(text) ==
    PiecesNamed(text, "max-age") # << >> /\ ~is_some(MaxAgeOf(text))

(* C11: a max-age directive whose value does not parse as an integer       *)
(* counts as absent: the HSTS check reports the High "missing max-age"     *)
(* finding and neither the Medium "too short" nor the Info "less than      *)
(* 1 year" finding, and the cookie check reports no long-expiration        *)
(* finding for a cookie whose Max-Age does not parse.                      *)
C11_UnparsableMaxAge ==
    /\ (/\ HstsRan
        /\ Decodes("strict-transport-security")
        /\ MaxAgeUnparsable(HeaderText("strict-transport-security")))
          => /\ \E i \in 1..Len(outs[3]) :
                   /\ outs[3][i].severity = "High"
                   /\ contains(outs[3][i].message, "missing max-age")
             /\ ~HasMessage(outs[3], "too short")
             /\ ~HasMessage(outs[3], "less than 1 year")
    /\ (OneCookie /\ MaxAgeUnparsable(get_all(headers, "set-cookie")[1]))
          => ~HasMessage(outs[5], "very long expiration")

\* every ';'-separated piece of a header is a name followed by a value
WellFormedSegments(text) ==
    \A i \in 1..Len(split(text, ";")) :
        /\ DirectiveToken(split(text, ";")[i]) # ""
        /\ DirectiveValue(split(text, ";")[i]) # ""

\* the CSP header text the CSP check works on
CspText == unwrap(to_str(unwrap(csp_header(headers))))

CspDecodes == is_some(csp_header(headers)) /\ is_some(to_str(unwrap(csp_header(headers))))

(* C12: extract_directive is a function of (raw value, directive name):    *)
(* two evaluations agree; when no piece of the header is named by the      *)
(* directive the result is None; for a header of well-formed `name value`  *)
(* pieces the result is the trimmed value of the first piece so named.     *)
C12_ExtractIsPure ==
    (CspRan /\ CspDecodes)
        => \A name \in {"default-src", "script-src", "object-src"} :
              LET named == ExactPieces(CspText, name)
              IN  /\ extract_directive(CspText, name) = extract_directive(CspText, name)
                  /\ named = << >> => extract_directive(CspText, name) = None
                  /\ (named # << >> /\ WellFormedSegments(CspText))
                        => extract_directive(CspText, name) = Some(DirectiveValue(named[1]))

\* the blank-separated tokens of a directive's value
Tokens(value) == SelectSeq(split(value, " "), LAMBDA t : t # "")

\* the header has a directive of that name whose value holds a lone '*'
HasStandaloneStar(text, name) ==
    /\ ExactPieces(text, name) # << >>
    /\ \E i \in 1..Len(Tokens(DirectiveValue(ExactPieces(text, name)[1]))) :
          Tokens(DirectiveValue(ExactPieces(text, name)[1]))[i] = "*"

(* C13: whenever the script-src value holds a lone '*' token, at whatever  *)
(* position among its tokens, the CSP check reports the Critical           *)
(* "script-src allows all sources" finding; likewise the High finding for  *)
(* a lone '*' in default-src.                                              *)
C13_WildcardAnyPosition ==
    (CspRan /\ CspDecodes)
        => /\ HasStandaloneStar(CspText, "script-src")
                 => \E i \in 1..Len(outs[1]) :
                       /\ outs[1][i].severity = "Critical"
                       /\ contains(outs[1][i].message, "script-src allows all sources")
           /\ HasStandaloneStar(CspText, "default-src")
                 => \E i \in 1..Len(outs[1]) :
                       /\ outs[1][i].severity = "High"
                       /\ contains(outs[1][i].message, "default-src allows all sources")

\* the cookie the cookie check was given, when it was given a single one
TheCookie == get_all(headers, "set-cookie")[1]

(* C14: every cookie whose name starts with __Secure- or __Host- and that  *)
(* has no Secure attribute yields the High "uses security prefix but       *)
(* missing Secure flag" finding and the Medium "missing Secure flag"       *)
(* finding; the letters "secure" in its name or value are no attribute.    *)
C14_PrefixNeedsSecure ==
    (/\ OneCookie
     /\ starts_with(CookieName(TheCookie), "__Secure-")
           \/ starts_with(CookieName(TheCookie), "__Host-")
     /\ ~CookieHasAttr(TheCookie, "secure"))
        => /\ \E i \in 1..Len(outs[5]) :
                 /\ outs[5][i].severity = "High"
                 /\ contains(outs[5][i].message, "uses security prefix but missing Secure flag")
           /\ \E i \in 1..Len(outs[5]) :
                 /\ outs[5][i].severity = "Medium"
                 /\ contains(outs[5][i].message, "missing Secure flag")

(* C15: every cookie whose name starts with __Host- and that does not      *)
(* carry the attribute Path=/ (no Path, or a Path other than "/") yields   *)
(* the High "Path is not /" finding.                                       *)
C15_HostNeedsRootPath ==
    (/\ OneCookie
     /\ starts_with(CookieName(TheCookie), "__Host-")
     /\ "/" \notin CookieAttrValues(TheCookie, "path"))
        => \E i \in 1..Len(outs[5]) :
              /\ outs[5][i].severity = "High"
              /\ contains(outs[5][i].message, "Path is not /")

\* what the cookie check returns for a response that sets only this cookie
CookieAlone(value) == cookies_check([NoHeaders EXCEPT !["set-cookie"] = << value >>])

RECURSIVE EachCookieAlone(_, _)
EachCookieAlone(values, i) ==
    IF i > Len(values) THEN << >>
    ELSE CookieAlone(values[i]) \o EachCookieAlone(values, i + 1)

(* C16: the cookie check treats each Set-Cookie value on its own: its      *)
(* result is the concatenation, in header order, of the results of         *)
(* checking each cookie alone, and a response without Set-Cookie yields    *)
(* no finding.                                                             *)
C16_CookiesIndependent ==
    CookiesRan
        => /\ outs[5] = EachCookieAlone(get_all(headers, "set-cookie"), 1)
           /\ ~contains_key(headers, "set-cookie") => outs[5] = << >>

\* two cookies, each with findings of its own, the second after the first
C16_Witness ==
    /\ pc = "misc"
    /\ get_all(headers, "set-cookie") = <<"__Host-id=1; Domain=example.com", "id=1">>
    /\ CookieAlone("id=1") # << >>
    /\ outs[5] = CookieAlone("__Host-id=1; Domain=example.com") \o CookieAlone("id=1")
    /\ outs[5] # CookieAlone("id=1") \o CookieAlone("__Host-id=1; Domain=example.com")

\* the response's Content-Security-Policy has a frame-ancestors directive
FrameAncestorsSet ==
    /\ Decodes("content-security-policy")
    /\ ExactPieces(HeaderText("content-security-policy"), "frame-ancestors") # << >>

\* X-Frame-Options is absent, or present with a text value
XfoReadable ==
    ~contains_key(headers, "x-frame-options") \/ Decodes("x-frame-options")

MissingXfo(found) ==
    \E i \in 1..Len(found) :
        found[i].severity = "Medium" /\ found[i].message = "Missing X-Frame-Options header"

BothSet(found) ==
    \E i \in 1..Len(found) :
        /\ found[i].severity = "Info"
        /\ found[i].message = "Both X-Frame-Options and CSP frame-ancestors are set"

(* C17: the framing check decides on (X-Frame-Options present,             *)
(* frame-ancestors directive present): both absent gives exactly the one   *)
(* Medium "Missing X-Frame-Options" finding; both present gives the Info   *)
(* redundancy finding; exactly one present gives neither of the two.       *)
C17_FramingPair ==
    (XframeRan /\ XfoReadable)
        => LET xfo == contains_key(headers, "x-frame-options")
               fa  == FrameAncestorsSet
           IN  /\ (~xfo /\ ~fa) => (Len(outs[4]) = 1 /\ MissingXfo(outs[4]))
               /\ (xfo /\ fa) => BothSet(outs[4])
               /\ (xfo # fa) => (~MissingXfo(outs[4]) /\ ~BothSet(outs[4]))

\* the integer a decimal numeral of up to twenty digits denotes, whatever
\* machine width would hold it
DecimalInteger(text) == parse_int(text, "99999999999999999999", "99999999999999999999")

VeryLongCache(found) ==
    \E i \in 1..Len(found) :
        /\ found[i].severity = "Low"
        /\ found[i].message = "CORS preflight cache time is very long"

(* C18: every Access-Control-Max-Age that is a decimal integer above 86400 *)
(* yields the Low "preflight cache time is very long" finding, integers    *)
(* above 2147483647 included, and every integer of 86400 or less yields    *)
(* no such finding.                                                        *)
C18_MaxAgeAnyWidth ==
    (/\ CorsRan
     /\ Decodes("access-control-max-age")
     /\ ~contains_key(headers, "access-control-allow-origin")
           \/ Decodes("access-control-allow-origin")
     /\ is_some(DecimalInteger(HeaderText("access-control-max-age"))))
        => (VeryLongCache(outs[2])
              <=> NumGt(unwrap(DecimalInteger(HeaderText("access-control-max-age"))),
                        Num(FALSE, "86400")))

\* the header has a directive of that name, and the first one has no value
HasEmptyDirective(text, name) ==
    ExactPieces(text, name) # << >> /\ DirectiveValue(ExactPieces(text, name)[1]) = ""

(* C19: a directive that stands in the header with an empty value (its     *)
(* name alone, before ';' or the end of the header) is extracted as        *)
(* present with an empty remainder, never as absent; the CSP check then    *)
(* reports no "missing 'default-src'" and no "missing 'object-src'"        *)
(* finding.                                                                *)
C19_EmptyValueIsPresent ==
    (CspRan /\ CspDecodes)
        => /\ \A name \in {"default-src", "script-src", "object-src"} :
                 HasEmptyDirective(CspText, name)
                     => extract_directive(CspText, name) = Some("")
           /\ HasEmptyDirective(CspText, "default-src")
                 => ~HasMessage(outs[1], "missing 'default-src'")
           /\ HasEmptyDirective(CspText, "object-src")
                 => ~HasMessage(outs[1], "missing 'object-src'")

\* what scan's sequential dispatch returns for a header set
SequentialIssues(h) == Flatten([k \in 1..6 |-> ModuleOutput(k, h)])

IsPrefix(a, b) == Len(a) <= Len(b) /\ SubSeq(b, 1, Len(a)) = a

(* C21: during the scan of one target the issue sequence only grows by     *)
(* appending: it is empty when the scan of a target begins, every module   *)
(* step leaves the earlier sequence as a prefix of the new one, the        *)
(* sequence put in the returned ScanResult is the final one, and a         *)
(* returned result is not changed afterwards.                              *)
C21_IssuesOnlyGrow ==
    [][ /\ (pc = "send" /\ pc' = "csp") => issues' = << >>
        /\ (pc \in ScanPcs /\ pc' \in ScanPcs)
              => (IsPrefix(issues, issues') /\ Len(issues') >= Len(issues))
        /\ (pc = "ret" /\ pc' = "loop")
              => /\ Len(all_results') = Len(all_results) + 1
                 /\ all_results'[Len(all_results')].issues = issues
        /\ IsPrefix(all_results, all_results') ]_vars

\* two targets scanned one after the other, each with findings, the second
\* result beginning with a finding of its own
C21_Witness ==
    /\ pc = "exit"
    /\ Len(all_results) = 2
    /\ all_results[1].issues # << >>
    /\ all_results[2].issues # << >>
    /\ all_results[2].issues[1] # all_results[1].issues[1]
    /\ ~IsPrefix(all_results[1].issues, all_results[2].issues)

FieldsNonEmpty(issue) ==
    issue.category # "" /\ issue.message # "" /\ issue.recommendation # ""

(* C22: every SecurityIssue a check module produces, for every header set, *)
(* has a non-empty category, message and recommendation, the findings for  *)
(* a cookie whose extracted name is empty included.                        *)
C22_FieldsNonEmpty ==
    /\ \A k \in 1..Len(outs) : \A i \in 1..Len(outs[k]) : FieldsNonEmpty(outs[k][i])
    /\ \A i \in 1..Len(issues) : FieldsNonEmpty(issues[i])
    /\ \A r \in 1..Len(all_results) :
          \A i \in 1..Len(all_results[r].issues) : FieldsNonEmpty(all_results[r].issues[i])

\* two cookies without a name, "=1" and the empty value, have been checked
C22_Witness ==
    /\ pc = "misc"
    /\ get_all(headers, "set-cookie") = <<"=1", "">>
    /\ extract_cookie_name("=1") = "" /\ extract_cookie_name("") = ""
    /\ Len(outs[5]) = 6
    /\ \A i \in 1..Len(outs[5]) : starts_with(outs[5][i].message, "Cookie '' missing")

\* the finding of the CSP check's script-src wildcard rule
IsScriptSrcWildcard(issue) ==
    /\ issue.category = "CSP"
    /\ issue.severity = "Critical"
    /\ issue.message = "CSP script-src allows all sources (*)"

\* the finding of the CORS check's wildcard-origin-with-credentials rule
IsWildcardWithCredentials(issue) ==
    /\ issue.category = "CORS"
    /\ issue.severity = "Critical"
    /\ issue.message = "CORS allows all origins (*) with credentials"

(* C23: has_critical() of a scan's result is true exactly when the CSP      *)
(* check's script-src wildcard rule or the CORS check's wildcard-origin-    *)
(* with-credentials rule fired: every Critical finding is one of these two, *)
(* the first from the CSP check and the second from the CORS check, and the *)
(* HSTS, Framing, Cookie and Miscellaneous checks produce none.             *)
C23_CriticalSources ==
    /\ \A k \in 1..Len(outs) : \A i \in 1..Len(outs[k]) :
          outs[k][i].severity = "Critical"
              => \/ k = 1 /\ IsScriptSrcWildcard(outs[k][i])
                 \/ k = 2 /\ IsWildcardWithCredentials(outs[k][i])
    /\ \A r \in 1..Len(all_results) :
          has_critical(all_results[r])
              <=> \E i \in 1..Len(all_results[r].issues) :
                     \/ IsScriptSrcWildcard(all_results[r].issues[i])
                     \/ IsWildcardWithCredentials(all_results[r].issues[i])
    /\ Returned
          => (has_critical(LastResult)
                <=> \/ \E i \in 1..Len(outs[1]) : IsScriptSrcWildcard(outs[1][i])
                    \/ \E i \in 1..Len(outs[2]) : IsWildcardWithCredentials(outs[2][i]))

\* a result whose two Critical findings are those of the two rules, next to
\* High findings of the framing check that do not count
C23_Witness ==
    /\ Returned
    /\ has_critical(LastResult)
    /\ count_by_severity(LastResult, "Critical") = 2
    /\ \E i \in 1..Len(outs[1]) : IsScriptSrcWildcard(outs[1][i])
    /\ \E i \in 1..Len(outs[2]) : IsWildcardWithCredentials(outs[2][i])
    /\ HasSeverity(outs[4], "High")

\* the framing check analysed a frame-ancestors directive and reported on it
FrameAncestorsFinding(found) ==
    \E i \in 1..Len(found) : found[i].category = "CSP frame-ancestors"

(* C24: the framing check's two readings of "frame-ancestors present" do   *)
(* not contradict each other in its output: a result with a finding of     *)
(* category "CSP frame-ancestors" never holds the "Missing X-Frame-        *)
(* Options header" finding, and when X-Frame-Options is present it also    *)
(* holds the Info redundancy finding.                                      *)
C24_FramingConsistent ==
    (XframeRan /\ FrameAncestorsFinding(outs[4]))
        => /\ ~MissingXfo(outs[4])
           /\ contains_key(headers, "x-frame-options") => BothSet(outs[4])

\* frame-ancestors as the second directive of the policy, reported on both
\* with and beside X-Frame-Options
C24_Witness ==
    /\ pc = "cookies"
    /\ get(headers, "x-frame-options") = Some("SAMEORIGIN")
    /\ get(headers, "content-security-policy")
          = Some("default-src 'self'; frame-ancestors http://a.example")
    /\ FrameAncestorsFinding(outs[4])
    /\ BothSet(outs[4])
    /\ Len(outs[4]) = 2

====
